---- MODULE Spec2Model ----
(***************************************************************************)
(* Model of package man (src/man/man.go): the recursive walk of            *)
(* GenerateManPages over a cobra command tree, the cross references of     *)
(* generateSeeAlso, the page model of generateManPage and the flag         *)
(* renderings of printSynFlags and printFlags.                             *)
(*                                                                         *)
(* Strings are sequences of tokens; a token is one character where the     *)
(* code looks at characters (" ", "-", ".", "\\", "\n") and a whole word    *)
(* otherwise.                                                              *)
(***************************************************************************)
EXTENDS Integers, Sequences, FiniteSets, TLC

\* Number of commands in the tree (the root is command 1).
MaxNodes == 4

\* Longest flag collection handed to printSynFlags / printFlags.
MaxFlags == 2

VARIABLES
    parent,     \* walk: cobra.Command.parent of every command (0: none)
    available,  \* walk: IsAvailableCommand() of every command
    helpTopic,  \* walk: IsAdditionalHelpTopicCommand() of every command
    commands,   \* walk: cobra.Command.commands, the slice Commands() returns
    opts,       \* walk: the caller's *GenerateManOptions
    opts0,      \* walk: the options as the caller passed them
    stack,      \* walk: the active calls of GenerateManPages, innermost last
    files,      \* walk: the os.Create calls that succeeded, in order
    pages,      \* walk: the calls of generateManPage, in order
    open,       \* walk: indices into files of the files not yet closed
    phase,      \* walk: "idle", "running", "done"
    err,        \* walk: what the top-level call returned ("nil": no error)
    failure,    \* walk: the first os.Create or generateManPage error so far
    cmd,        \* page: the command handed to generateManPage
    popts,      \* page: the options handed to generateManPage
    values,     \* page: the manStruct built by generateManPage
    pphase,     \* page: "input" or "built"
    flagset,    \* flags: the pflag.FlagSet, in VisitAll order
    synOut,     \* flags: what printSynFlags wrote, one entry per WriteString
    fullOut,    \* flags: what printFlags wrote, one entry per WriteString
    fphase      \* flags: which of the two printers have run

walkVars == <<parent, available, helpTopic, commands, opts, opts0, stack,
              files, pages, open, phase, err, failure>>
pageVars == <<cmd, popts, values, pphase>>
flagVars == <<flagset, synOut, fullOut, fphase>>
vars == <<walkVars, pageVars, flagVars>>

-----------------------------------------------------------------------------
(* Strings *)

\* strings.Replace(s, old, new, -1) for a one-character old.
RECURSIVE Replace(_, _, _)
Replace(s, old, new) ==
    IF s = <<>> THEN <<>>
    ELSE (IF Head(s) = old THEN new ELSE <<Head(s)>>) \o Replace(Tail(s), old, new)

\* strings.Join(list, sep)
RECURSIVE Join(_, _)
Join(list, sep) ==
    IF list = <<>> THEN <<>>
    ELSE IF Len(list) = 1 THEN list[1]
    ELSE list[1] \o sep \o Join(Tail(list), sep)

\* The words used as command names, in ascending (byte) order.
Lexicon == <<"a", "c", "h", "m", "t", "x">>

\* Use (and so Name()) of command n.
CmdNames == <<"m", "c", "x", "a", "t", "h">>

Nodes == 1..MaxNodes
Root == 1

Name(n) == CmdNames[n]

\* s < t on Go strings, for the words of Lexicon.
StrLess(s, t) ==
    \E i, j \in 1..Len(Lexicon) : Lexicon[i] = s /\ Lexicon[j] = t /\ i < j

-----------------------------------------------------------------------------
(* The command tree, as cobra exposes it *)

HasParent(c) == parent[c] # 0

\* cobra's CommandPath(): the parent's path, a space, the command's name.
RECURSIVE CommandPath(_)
CommandPath(c) ==
    IF HasParent(c) THEN CommandPath(parent[c]) \o <<" ", Name(c)>>
    ELSE <<Name(c)>>

\* The test of lines 138 and 392: the child is skipped.
NotVisible(c) == ~available[c] \/ helpTopic[c]

\* byName.Less
byNameLess(c, d) == StrLess(Name(c), Name(d))

\* sort.Sort(byName(s)): the slice in ascending order of name.
RECURSIVE InsertByName(_, _)
InsertByName(c, s) ==
    IF s = <<>> THEN <<c>>
    ELSE IF byNameLess(Head(s), c) THEN <<Head(s)>> \o InsertByName(c, Tail(s))
    ELSE <<c>> \o s

RECURSIVE SortByName(_)
SortByName(s) ==
    IF s = <<>> THEN <<>> ELSE InsertByName(Head(s), SortByName(Tail(s)))

-----------------------------------------------------------------------------
(* GenerateManPages: naming *)

\* Lines 145-148: the section of the file name.
ResolveSection(o) == IF o.Section # "" THEN o.Section ELSE "1"

\* Lines 150-153: the separator of the file name.
ResolveSeparator(o) == IF o.CommandSeparator # "" THEN o.CommandSeparator ELSE "-"

\* Lines 154-155: basename and filename (filepath.Join of a non-empty
\* directory and a name without path separators).
Filename(c, o) ==
    <<o.Directory, "/">> \o Replace(CommandPath(c), " ", <<ResolveSeparator(o)>>)
        \o <<".", ResolveSection(o)>>

\* Lines 134-136: an empty program name is set in the caller's options.
EnterOpts(o, c) ==
    IF o.ProgramName = <<>> THEN [o EXCEPT !.ProgramName = CommandPath(c)] ELSE o

-----------------------------------------------------------------------------
(* generateSeeAlso *)

\* Line 380: the siblings left out of the list.
SiblingSkippedNoSelfTest(c, me) == NotVisible(c)

SiblingSkipped(c, me) == NotVisible(c) \/ Name(c) = Name(me)

\* Lines 373 and 388: the path with "\-" for every space.
DashPath(c) == Replace(CommandPath(c), " ", <<"\\-">>)

\* Line 374: the parent's entry.
ParentSeeAlso(c, section) == <<".BR ">> \o DashPath(parent[c]) \o <<" (", section, ")">>

\* Lines 383 and 396: the entry of child c of command p.
ChildSeeAlso(p, c, section) ==
    <<".BR ">> \o DashPath(p) \o <<"\\-", Name(c), " (", section, ")">>

\* The entries appended by the loop of lines 379-385 over the sorted siblings.
SiblingSeeAlsos(c, section) ==
    LET siblings == SortByName(commands[parent[c]])
        kept == SelectSeq(siblings, LAMBDA s : ~SiblingSkipped(s, c))
    IN  [k \in 1..Len(kept) |-> ChildSeeAlso(parent[c], kept[k], section)]

\* The entries appended by the loop of lines 391-398 over the sorted children.
ChildSeeAlsos(c, section) ==
    LET children == SortByName(commands[c])
        kept == SelectSeq(children, LAMBDA s : ~NotVisible(s))
    IN  [k \in 1..Len(kept) |-> ChildSeeAlso(c, kept[k], section)]

\* The local seealsos at line 400.
SeeAlsoList(c, section) ==
    (IF HasParent(c)
     THEN <<ParentSeeAlso(c, section)>> \o SiblingSeeAlsos(c, section)
     ELSE <<>>)
    \o ChildSeeAlsos(c, section)

\* The two results of generateSeeAlso.
generateSeeAlso(c, section) ==
    [HasSeeAlso |-> HasParent(c) \/ ChildSeeAlsos(c, section) # <<>>,
     SeeAlsos   |-> Join(SeeAlsoList(c, section), <<",\n">>),
     seealsos   |-> SeeAlsoList(c, section)]

\* Commands() returns the command's own slice, so the sort.Sort calls of
\* lines 378 and 390 reorder the tree's slices in place.
CommandsAfterSeeAlso(c) ==
    [n \in Nodes |->
        IF n = c \/ (HasParent(c) /\ n = parent[c]) THEN SortByName(commands[n])
        ELSE commands[n]]

-----------------------------------------------------------------------------
(* GenerateManPages: the walk *)

\* The order of the statements of GenerateManPages after the program-name
\* default: the loop over the children (137-144), os.Create (145-160),
\* generateManPage (162), return.
NextPcCreateFirst(pc) ==
    CASE pc = "entry"  -> "create"
      [] pc = "create" -> "render"
      [] pc = "render" -> "loop"
      [] OTHER         -> "ret"

NextPc(pc) ==
    CASE pc = "entry"  -> "loop"
      [] pc = "loop"   -> "create"
      [] pc = "create" -> "render"
      [] OTHER         -> "ret"

\* Lines 141-143: a child's error ends the caller's loop.
ChildErrIgnored(e) == FALSE

ChildErrReturns(e) == e # "nil"

\* Line 160: defer f.Close() runs on every return once the file was created.
ClosedOnSuccessOnly(fr) == fr.f # 0 /\ fr.ret = "nil"

ClosedOnReturn(fr) == fr.f # 0

Frame(c) == [cmd |-> c, i |-> 1, pc |-> NextPc("entry"), f |-> 0, ret |-> "nil"]

Top == stack[Len(stack)]

SetTop(fr) == [stack EXCEPT ![Len(stack)] = fr]

Running == phase = "running" /\ stack # <<>>

\* The caller's call of GenerateManPages(root, opts).
TopCall ==
    /\ phase = "idle"
    /\ phase' = "running"
    /\ opts' = EnterOpts(opts, Root)
    /\ stack' = <<Frame(Root)>>
    /\ UNCHANGED <<parent, available, helpTopic, commands, opts0, files, pages,
                   open, err, failure>>
    /\ UNCHANGED <<pageVars, flagVars>>

\* Lines 137-140: the next child is not visible; continue.
LoopSkip ==
    /\ Running /\ Top.pc = "loop" /\ Top.i <= Len(commands[Top.cmd])
    /\ NotVisible(commands[Top.cmd][Top.i])
    /\ stack' = SetTop([Top EXCEPT !.i = @ + 1])
    /\ UNCHANGED <<parent, available, helpTopic, commands, opts, opts0, files,
                   pages, open, phase, err, failure>>
    /\ UNCHANGED <<pageVars, flagVars>>

\* Line 141: the recursive call for the next child.
LoopRecurse ==
    /\ Running /\ Top.pc = "loop" /\ Top.i <= Len(commands[Top.cmd])
    /\ ~NotVisible(commands[Top.cmd][Top.i])
    /\ opts' = EnterOpts(opts, commands[Top.cmd][Top.i])
    /\ stack' = Append(stack, Frame(commands[Top.cmd][Top.i]))
    /\ UNCHANGED <<parent, available, helpTopic, commands, opts0, files, pages,
                   open, phase, err, failure>>
    /\ UNCHANGED <<pageVars, flagVars>>

\* The range of line 137 is exhausted.
LoopEnd ==
    /\ Running /\ Top.pc = "loop" /\ Top.i > Len(commands[Top.cmd])
    /\ stack' = SetTop([Top EXCEPT !.pc = NextPc("loop")])
    /\ UNCHANGED <<parent, available, helpTopic, commands, opts, opts0, files,
                   pages, open, phase, err, failure>>
    /\ UNCHANGED <<pageVars, flagVars>>

\* Lines 145-160: os.Create succeeds; the file is open until the call returns.
CreateOk ==
    /\ Running /\ Top.pc = "create"
    /\ files' = Append(files, [cmd |-> Top.cmd, name |-> Filename(Top.cmd, opts)])
    /\ open' = open \cup {Len(files) + 1}
    /\ stack' = SetTop([Top EXCEPT !.f = Len(files) + 1, !.pc = NextPc("create")])
    /\ UNCHANGED <<parent, available, helpTopic, commands, opts, opts0, pages,
                   phase, err, failure>>
    /\ UNCHANGED <<pageVars, flagVars>>

\* Lines 156-159: os.Create fails; the call returns the error.
CreateFail ==
    /\ Running /\ Top.pc = "create"
    /\ stack' = SetTop([Top EXCEPT !.ret = "create", !.pc = "ret"])
    /\ failure' = IF failure = "nil" THEN "create" ELSE failure
    /\ UNCHANGED <<parent, available, helpTopic, commands, opts, opts0, files,
                   pages, open, phase, err>>
    /\ UNCHANGED <<pageVars, flagVars>>

\* The part of generateManPage the walk depends on: the header fields, the
\* cross references (which sort the tree's slices) and the page it records.
PageOf(c) ==
    [cmd         |-> c,
     ProgramName |-> opts.ProgramName,
     Section     |-> ResolveSection(opts)]
    @@ generateSeeAlso(c, ResolveSection(opts))

\* Line 162, generateManPage returning nil.
RenderOk ==
    /\ Running /\ Top.pc = "render"
    /\ pages' = Append(pages, PageOf(Top.cmd))
    /\ commands' = CommandsAfterSeeAlso(Top.cmd)
    /\ stack' = SetTop([Top EXCEPT !.pc = NextPc("render")])
    /\ UNCHANGED <<parent, available, helpTopic, opts, opts0, files, open,
                   phase, err, failure>>
    /\ UNCHANGED <<pageVars, flagVars>>

\* Line 162, generateManPage returning the error of lines 318-325 (the
\* template does not parse, or executing it into the file fails).
RenderFail ==
    /\ Running /\ Top.pc = "render"
    /\ pages' = Append(pages, PageOf(Top.cmd))
    /\ commands' = CommandsAfterSeeAlso(Top.cmd)
    /\ stack' = SetTop([Top EXCEPT !.ret = "render", !.pc = "ret"])
    /\ failure' = IF failure = "nil" THEN "render" ELSE failure
    /\ UNCHANGED <<parent, available, helpTopic, opts, opts0, files, open,
                   phase, err>>
    /\ UNCHANGED <<pageVars, flagVars>>

\* The call returns: the deferred Close runs, and the caller either returns
\* the child's error (141-143) or goes on with its next child.
Return ==
    /\ Running /\ Top.pc = "ret"
    /\ open' = IF ClosedOnReturn(Top) THEN open \ {Top.f} ELSE open
    /\ IF Len(stack) = 1
       THEN /\ stack' = <<>>
            /\ phase' = "done"
            /\ err' = Top.ret
       ELSE LET caller == stack[Len(stack) - 1]
                rest == SubSeq(stack, 1, Len(stack) - 2)
            IN  /\ stack' = rest \o
                     <<IF ChildErrReturns(Top.ret)
                       THEN [caller EXCEPT !.ret = Top.ret, !.pc = "ret"]
                       ELSE [caller EXCEPT !.i = @ + 1]>>
                /\ UNCHANGED <<phase, err>>
    /\ UNCHANGED <<parent, available, helpTopic, commands, opts, opts0, files,
                   pages, failure>>
    /\ UNCHANGED <<pageVars, flagVars>>

-----------------------------------------------------------------------------
(* Text helpers of the package (utils) *)

\* backslashify: "-" is written "\-".
backslashify(str) == Replace(str, "-", <<"\\-">>)

\* simpleToTroff: text that starts with "." is troff already and is passed
\* through; other text has its backslashes escaped and every line break
\* turned into a paragraph break.
simpleToTroff(str) ==
    IF str # <<>> /\ Head(str) = "." THEN str
    ELSE Replace(Replace(str, "\\", <<"\\", "\\">>), "\n", <<"\n", ".PP", "\n">>)

\* strings.TrimRight(str, " \n")
RECURSIVE TrimRight(_)
TrimRight(str) ==
    IF str # <<>> /\ str[Len(str)] \in {" ", "\n"}
    THEN TrimRight(SubSeq(str, 1, Len(str) - 1))
    ELSE str

\* bytes.Buffer: the writes, one after the other.
RECURSIVE BufferString(_)
BufferString(writes) ==
    IF writes = <<>> THEN <<>> ELSE Head(writes) \o BufferString(Tail(writes))

-----------------------------------------------------------------------------
(* printSynFlags and printFlags *)

\* Lines 331 and 344: the flag is left out.
FlagSkippedHiddenOnly(flag) == flag.Hidden

FlagSkipped(flag) == Len(flag.Deprecated) > 0 \/ flag.Hidden

\* Lines 334 and 348: the flag is shown with its shorthand.
UsesShorthand(flag) == Len(flag.Shorthand) > 0 /\ Len(flag.ShorthandDeprecated) = 0

\* Lines 334-338: the write for one flag.
SynEntry(flag) ==
    IF UsesShorthand(flag)
    THEN <<".RB [ ", "\\-">> \o flag.Shorthand \o <<" ]", "\n">>
    ELSE <<".RB [ ", "\\-\\-">> \o backslashify(flag.Name) \o <<" ]", "\n">>

\* Lines 347-362: the write for one flag.
FullEntry(flag) ==
    LET names == IF UsesShorthand(flag)
                 THEN <<"\\fB", "\\-">> \o flag.Shorthand \o <<"\\fP", ", ", "\\fB", "\\-\\-">>
                      \o backslashify(flag.Name) \o <<"\\fP">>
                 ELSE <<"\\fB", "\\-\\-">> \o backslashify(flag.Name) \o <<"\\fP">>
        optional == Len(flag.NoOptDefVal) > 0
        str == <<".TP", "\n">> \o names
               \o (IF optional THEN <<"[">> ELSE <<>>)
               \o <<"=", "\\fI">> \o backslashify(flag.DefValue) \o <<"\\fR">>
               \o (IF optional THEN <<"]">> ELSE <<>>)
               \o <<"\n">> \o backslashify(flag.Usage) \o <<"\n">>
    IN  TrimRight(str)

\* flags.VisitAll(...): one write per flag that is not skipped, in the
\* flag set's order.
printSynFlags(flags) ==
    LET shown == SelectSeq(flags, LAMBDA f : ~FlagSkipped(f))
    IN  [k \in 1..Len(shown) |-> SynEntry(shown[k])]

printFlags(flags) ==
    LET shown == SelectSeq(flags, LAMBDA f : ~FlagSkipped(f))
    IN  [k \in 1..Len(shown) |-> FullEntry(shown[k])]

\* The caller runs printSynFlags on the flag set.
PrintSynFlags ==
    /\ "off" \notin fphase /\ "syn" \notin fphase
    /\ synOut' = printSynFlags(flagset)
    /\ fphase' = fphase \cup {"syn"}
    /\ UNCHANGED <<flagset, fullOut, walkVars, pageVars>>

\* The caller runs printFlags on the flag set.
PrintFlags ==
    /\ "off" \notin fphase /\ "full" \notin fphase
    /\ fullOut' = printFlags(flagset)
    /\ fphase' = fphase \cup {"full"}
    /\ UNCHANGED <<flagset, synOut, walkVars, pageVars>>

-----------------------------------------------------------------------------
(* generateManPage: lines 223-308 *)

\* cobra's Flags(): the command's own flags and those inherited from its
\* parents; NonInheritedFlags(): the command's own.
Flags(c) == c.localFlags \o c.inheritedFlags

NonInheritedFlags(c) == c.localFlags

\* pflag's HasFlags(): the set holds a flag, shown or not.
HasFlags(flags) == Len(flags) > 0

\* Lines 244-262: the two flag blocks.
FlagBlocks(c, o) ==
    LET flags == IF o.GenSeprateInheritedFlags THEN NonInheritedFlags(c) ELSE Flags(c)
        inh == NonInheritedFlags(c)
    IN  [HasFlags          |-> HasFlags(flags),
         Flags             |-> IF HasFlags(flags) THEN BufferString(printFlags(flags)) ELSE <<>>,
         HasInheritedFlags |-> o.GenSeprateInheritedFlags,
         InheritedFlags    |-> IF o.GenSeprateInheritedFlags
                               THEN BufferString(printFlags(inh)) ELSE <<>>]

\* Lines 264-272, 274-282 and 284-292: a section set by the options or by
\* the command's annotation; the annotation is used when it is not empty.
OptionalSection(global, annotation) ==
    [Has  |-> global # <<>> \/ annotation # <<>>,
     Text |-> IF global # <<>> \/ annotation # <<>>
              THEN (IF annotation # <<>> THEN simpleToTroff(annotation)
                    ELSE simpleToTroff(global))
              ELSE <<>>]

\* Lines 294-302: the examples block stores its text in values.Bugs.
BugsAfterExamples(c, bugs) ==
    IF c.Example # <<>> \/ c.Annotations.examples # <<>>
    THEN (IF c.Annotations.examples # <<>> THEN simpleToTroff(c.Annotations.examples)
          ELSE simpleToTroff(c.Example))
    ELSE bugs

\* The manStruct at line 308 (without the header fields and the cross
\* references, which the walk records).
generateManPage(c, o) ==
    LET env   == OptionalSection(o.Environment, c.Annotations.environment)
        fls   == OptionalSection(o.Files, c.Annotations.files)
        bugs  == OptionalSection(o.Bugs, c.Annotations.bugs)
    IN  [Name           |-> Replace(c.Path, " ", <<"-">>) \o <<" ", "\\-", " ">> \o backslashify(c.Short) \o <<"\n">>,
         SynFlags       |-> IF HasFlags(Flags(c))
                            THEN BufferString(printSynFlags(Flags(c))) ELSE <<>>,
         Description    |-> IF Len(c.Long) = 0 THEN c.Short ELSE c.Long,
         HasEnvironment |-> env.Has,
         Environment    |-> env.Text,
         HasFiles       |-> fls.Has,
         Files          |-> fls.Text,
         HasBugs        |-> bugs.Has,
         Bugs           |-> BugsAfterExamples(c, bugs.Text),
         HasExamples    |-> c.Example # <<>> \/ c.Annotations.examples # <<>>,
         Examples       |-> <<>>,
         HasAuthor      |-> o.Author # <<>>,
         Author         |-> IF o.Author # <<>>
                            THEN o.Author \o <<"\n", ".PP", "\n",
                                 ".SM Page auto-generated by rjohnson/cobra-man and spf13/cobra">>
                            ELSE <<>>]
        @@ FlagBlocks(c, o)

\* generateManPage builds the page model of the command.
GenerateManPage ==
    /\ pphase = "input"
    /\ values' = generateManPage(cmd, popts)
    /\ pphase' = "built"
    /\ UNCHANGED <<cmd, popts, walkVars, flagVars>>

-----------------------------------------------------------------------------
(* The inputs of a run *)

\* The trees over Nodes: every command but the root has an earlier parent.
ParentMaps ==
    {p \in [Nodes -> 0..MaxNodes] :
        p[Root] = 0 /\ \A n \in Nodes \ {Root} : p[n] \in 1..(n - 1)}

ChildrenIn(p, n) == {c \in Nodes : p[c] = n}

\* Every order of the elements of S.
Perms(S) ==
    {s \in [1..Cardinality(S) -> S] : \A i, j \in DOMAIN s : s[i] = s[j] => i = j}

\* The slices of commands 1..k of tree p, in every order in which AddCommand
\* can have filled them (cobra.EnableCommandSorting may be off).
RECURSIVE SlicesUpTo(_, _)
SlicesUpTo(p, k) ==
    IF k = 0 THEN {<<>>}
    ELSE {Append(f, s) : f \in SlicesUpTo(p, k - 1), s \in Perms(ChildrenIn(p, k))}

\* The options a caller passes.
OptionValues ==
    [ProgramName      : {<<>>, <<"zap">>},
     Section          : {"", "8"},
     CommandSeparator : {"", "_"},
     Directory        : {"man"},
     CenterFooter     : {""},
     LeftFooter       : {""}]

\* The other processes' variables while the walk runs.
NoPage ==
    /\ cmd = <<>> /\ popts = <<>> /\ values = <<>> /\ pphase = "off"

NoFlags ==
    /\ flagset = <<>> /\ synOut = <<>> /\ fullOut = <<>> /\ fphase = {"off"}

Init ==
    /\ parent \in ParentMaps
    /\ commands \in SlicesUpTo(parent, MaxNodes)
    /\ available \in [Nodes -> BOOLEAN]
    /\ helpTopic \in {h \in [Nodes -> BOOLEAN] : \A n \in Nodes : h[n] => ~available[n]}
    /\ opts \in OptionValues
    /\ opts0 = opts
    /\ stack = <<>>
    /\ files = <<>>
    /\ pages = <<>>
    /\ open = {}
    /\ phase = "idle"
    /\ err = "nil"
    /\ failure = "nil"
    /\ NoPage
    /\ NoFlags

Next ==
    \/ TopCall
    \/ LoopSkip
    \/ LoopRecurse
    \/ LoopEnd
    \/ CreateOk
    \/ CreateFail
    \/ RenderOk
    \/ RenderFail
    \/ Return

Spec == Init /\ [][Next]_vars

\* The walk's variables while another process is looked at.
NoWalk ==
    /\ parent = [n \in Nodes |-> 0]
    /\ commands = [n \in Nodes |-> <<>>]
    /\ available = [n \in Nodes |-> TRUE]
    /\ helpTopic = [n \in Nodes |-> FALSE]
    /\ opts = <<>> /\ opts0 = <<>>
    /\ stack = <<>> /\ files = <<>> /\ pages = <<>> /\ open = {}
    /\ phase = "off" /\ err = "nil" /\ failure = "nil"

\* Flag names with the shorthand each may have.
FlagNames ==
    {[Name |-> <<"verbose">>, Shorthand |-> <<"v">>],
     [Name |-> <<"dry", "-", "run">>, Shorthand |-> <<"n">>],
     [Name |-> <<"config">>, Shorthand |-> <<"c">>]}

\* The flags a pflag.FlagSet can hold.
FlagValues ==
    UNION {[Name                : {fn.Name},
            Shorthand           : {<<>>, fn.Shorthand},
            ShorthandDeprecated : {<<>>, <<"use the long form">>},
            Deprecated          : {<<>>, <<"gone">>},
            Hidden              : BOOLEAN,
            NoOptDefVal         : {<<>>, <<"true">>},
            DefValue            : {<<"x", "-", "y">>},
            Usage               : {<<"what it does">>}] : fn \in FlagNames}

\* The flag sets of at most n flags: no two flags of a set share a name.
RECURSIVE FlagSets(_)
FlagSets(n) ==
    IF n = 0 THEN {<<>>}
    ELSE LET shorter == FlagSets(n - 1)
             longest == {Append(fs, f) : fs \in {g \in shorter : Len(g) = n - 1},
                                         f \in FlagValues}
         IN  shorter \cup
             {fs \in longest : \A i \in 1..(n - 1) : fs[i].Name # fs[n].Name}

InitFlags ==
    /\ flagset \in FlagSets(MaxFlags)
    /\ synOut = <<>>
    /\ fullOut = <<>>
    /\ fphase = {}
    /\ NoWalk
    /\ NoPage

NextFlags ==
    \/ PrintSynFlags
    \/ PrintFlags

SpecFlags == InitFlags /\ [][NextFlags]_vars

\* The free text of a section: none, plain text, text that is troff already.
Texts == {<<>>, <<"a", "\\", "b", "\n", "c">>, <<".", "B", " ", "x">>}

\* Flags of the command itself and flags inherited from its parents.
LocalFlagChoices ==
    {fs \in FlagSets(1) :
        \A k \in 1..Len(fs) :
            /\ fs[k].Name = <<"config">> /\ fs[k].Deprecated = <<>>
            /\ fs[k].ShorthandDeprecated = <<>> /\ fs[k].NoOptDefVal = <<>>
            /\ fs[k].Shorthand # <<>>}

InheritedFlagChoices ==
    {fs \in FlagSets(1) :
        \A k \in 1..Len(fs) :
            /\ fs[k].Name = <<"verbose">> /\ fs[k].Deprecated = <<>>
            /\ fs[k].ShorthandDeprecated = <<>> /\ fs[k].NoOptDefVal # <<>>
            /\ fs[k].Shorthand # <<>>}

\* The commands handed to generateManPage.
CommandValues ==
    [Path           : {<<"zap", " ", "publish">>},
     Short          : {<<"Publish">>},
     Long           : {<<>>, <<"Publish", " ", "into", " ", "MQTT">>},
     Example        : {<<>>, <<"zap", " ", "publish", " ", "-", "v">>},
     Annotations    : [environment : Texts, files : Texts, bugs : Texts,
                       examples : {<<>>, <<"see", " ", "the", " ", "manual">>}],
     localFlags     : LocalFlagChoices,
     inheritedFlags : InheritedFlagChoices]

\* The options handed to generateManPage.
PageOptionValues ==
    [Environment              : Texts,
     Files                    : {<<>>, <<"~/.zap">>},
     Bugs                     : Texts,
     Author                   : {<<>>, <<"Ray">>},
     GenSeprateInheritedFlags : BOOLEAN]

InitPage ==
    /\ cmd \in CommandValues
    /\ popts \in PageOptionValues
    /\ values = <<>>
    /\ pphase = "input"
    /\ NoWalk
    /\ NoFlags

NextPage == GenerateManPage

SpecPage == InitPage /\ [][NextPage]_vars

-----------------------------------------------------------------------------
(* Properties of the walk *)

\* A command is visible: available and not a help-topic placeholder.
Visible(n) == available[n] /\ ~helpTopic[n]

\* The proper ancestors of n.
RECURSIVE Ancestors(_)
Ancestors(n) == IF parent[n] = 0 THEN {} ELSE {parent[n]} \cup Ancestors(parent[n])

\* n and all of its ancestors are visible.
VisiblePath(n) == Visible(n) /\ \A a \in Ancestors(n) : Visible(a)

\* The names on the path from the root to n.
RECURSIVE PathNames(_)
PathNames(n) ==
    IF parent[n] = 0 THEN <<<<Name(n)>>>> ELSE Append(PathNames(parent[n]), <<Name(n)>>)

\* <directory>/<path with the separator for every space>.<section>
ExpectedFile(n) ==
    <<opts0.Directory, "/">>
    \o Join(PathNames(n),
            <<IF opts0.CommandSeparator = "" THEN "-" ELSE opts0.CommandSeparator>>)
    \o <<".", IF opts0.Section = "" THEN "1" ELSE opts0.Section>>

FilesOf(n) == {k \in 1..Len(files) : files[k].cmd = n}

\* C1: after an error-free run over a tree with a visible root, a command has
\* a file if and only if it and all its ancestors are visible; it then has
\* exactly one, at <directory>/<path with separators>.<section>; and no other
\* file was created.
C1_OneFilePerVisibleCommand ==
    (phase = "done" /\ err = "nil" /\ Visible(Root)) =>
        \A n \in Nodes :
            /\ VisiblePath(n) =>
                  /\ Cardinality(FilesOf(n)) = 1
                  /\ \A k \in FilesOf(n) : files[k].name = ExpectedFile(n)
            /\ ~VisiblePath(n) => FilesOf(n) = {}

\* The elements of S in ascending order of name.
Ascending(S) ==
    CHOOSE s \in Perms(S) :
        \A i, j \in DOMAIN s : i < j => StrLess(Name(s[i]), Name(s[j]))

\* The cross reference to command n: its path with "\-" between the names.
RefTo(n, section) ==
    <<".BR ">> \o Join(PathNames(n), <<"\\-">>) \o <<" (", section, ")">>

RefsTo(s, section) == [k \in 1..Len(s) |-> RefTo(s[k], section)]

VisibleSiblings(n) ==
    IF parent[n] = 0 THEN {}
    ELSE {c \in Nodes \ {n} : parent[c] = parent[n] /\ Visible(c)}

VisibleChildren(n) == {c \in Nodes : parent[c] = n /\ Visible(c)}

\* The list the claim describes: parent, visible siblings, visible children.
ExpectedSeeAlso(n, section) ==
    (IF parent[n] = 0 THEN <<>> ELSE <<RefTo(parent[n], section)>>)
    \o RefsTo(Ascending(VisibleSiblings(n)), section)
    \o RefsTo(Ascending(VisibleChildren(n)), section)

Listed(pg, n) == \E i \in 1..Len(pg.seealsos) : pg.seealsos[i] = RefTo(n, pg.Section)

SeeAlsoAsOrdered(pg) ==
    /\ pg.seealsos = ExpectedSeeAlso(pg.cmd, pg.Section)
    /\ ~Listed(pg, pg.cmd)

\* C2 as stated: every list built is the parent's entry, the visible siblings
\* by name, the visible children by name; the command itself is not in it and
\* no command that is unavailable or a help topic is in it.
C2_SeeAlsoNoHiddenCommand ==
    \A k \in 1..Len(pages) :
        /\ SeeAlsoAsOrdered(pages[k])
        /\ \A n \in Nodes : ~Visible(n) => ~Listed(pages[k], n)

\* C2 as amended: the same order, the command itself is not in the list, and
\* no unavailable or help-topic sibling or child is in it; the parent's entry
\* is there whether or not the parent is visible.
C2_SeeAlsoOrder ==
    \A k \in 1..Len(pages) :
        /\ SeeAlsoAsOrdered(pages[k])
        /\ \A n \in Nodes :
              (~Visible(n) /\ parent[n] # 0
                 /\ parent[n] \in {pages[k].cmd, parent[pages[k].cmd]})
              => ~Listed(pages[k], n)

\* A list with the parent, a sibling and a child has been built.
C2_Witness ==
    \E k \in 1..Len(pages) :
        LET n == pages[k].cmd
        IN  /\ parent[n] # 0
            /\ VisibleSiblings(n) # {}
            /\ VisibleChildren(n) # {}
            /\ Len(pages[k].seealsos) = 3

\* C7: once os.Create or generateManPage has failed no further file is
\* created, the files created before stay, and the top-level call returns
\* that error.
C7_ErrorAbortsWalk ==
    /\ [][failure # "nil" => files' = files]_vars
    /\ [](phase = "done" /\ failure # "nil" => err = failure)

\* A run that failed after it had created files, and has returned.
C7_Witness ==
    /\ phase = "done" /\ failure = "create" /\ err = "create"
    /\ Len(files) >= 2
    /\ \E n \in Nodes : VisiblePath(n) /\ FilesOf(n) = {}

\* C8 as stated (pre-order): when a file is created for a command, the file
\* of each of its ancestors has been created and rendered before.
C8_PreOrder ==
    \A k \in 1..Len(files) :
        \A a \in Ancestors(files[k].cmd) :
            \E j \in 1..(k - 1) : files[j].cmd = a /\ j <= Len(pages)

\* C8 as amended (post-order): a command's children are walked before its own
\* file is created: every file created for a command is followed by the file
\* of each of its ancestors, unless that ancestor's call is still walking its
\* children or the run has failed.
C8_PostOrder ==
    \A k \in 1..Len(files) :
        \A a \in Ancestors(files[k].cmd) :
            \/ \E j \in (k + 1)..Len(files) : files[j].cmd = a
            \/ \E d \in 1..Len(stack) : stack[d].cmd = a /\ stack[d].f = 0
            \/ failure # "nil"

\* An error-free run over a tree three levels deep, all of it emitted.
C8_Witness ==
    /\ phase = "done" /\ err = "nil"
    /\ \E k \in 1..Len(files) : Cardinality(Ancestors(files[k].cmd)) = 2
    /\ files[Len(files)].cmd = Root

\* C9: only the file created last can be open, so at most one is; and none is
\* open once the top-level call has returned, with or without an error.
C9_OneFileOpen ==
    /\ open \subseteq {Len(files)}
    /\ phase = "done" => open = {}

\* A run that created several files, failed while rendering, and returned.
C9_Witness ==
    /\ phase = "done" /\ failure = "render"
    /\ Len(files) >= 2
    /\ open = {}

\* C10: the run leaves every field of the caller's options as it was.
C10_OptionsUnchanged == phase = "done" => opts = opts0

-----------------------------------------------------------------------------
(* Properties of the flag renderings *)

\* t occurs in s as a run of consecutive tokens.
HasSub(s, t) ==
    \E i \in 0..(Len(s) - Len(t)) : SubSeq(s, i + 1, i + Len(t)) = t

\* The flags that are neither hidden nor deprecated, in the set's order.
ShownFlags == SelectSeq(flagset, LAMBDA f : ~f.Hidden /\ f.Deprecated = <<>>)

ShortForm(f) == <<"\\-">> \o f.Shorthand

LongForm(f) == <<"\\-\\-">> \o backslashify(f.Name)

HasShortForm(e, f) == f.Shorthand # <<>> /\ HasSub(e, ShortForm(f))

LiveShorthand(f) == f.Shorthand # <<>> /\ f.ShorthandDeprecated = <<>>

\* C3: a hidden or deprecated flag has no entry in the synopsis or in the
\* full rendering, every other flag has exactly one in each; with a
\* shorthand that is not deprecated the synopsis entry uses the short form
\* and the full entry both forms, otherwise both entries use the long form
\* only.
C3_FlagRenderings ==
    /\ "syn" \in fphase =>
          /\ Len(synOut) = Len(ShownFlags)
          /\ \A k \in 1..Len(synOut) :
                LET f == ShownFlags[k]
                    e == synOut[k]
                IN  IF LiveShorthand(f)
                    THEN HasShortForm(e, f) /\ ~HasSub(e, LongForm(f))
                    ELSE HasSub(e, LongForm(f)) /\ ~HasShortForm(e, f)
          /\ \A i \in 1..Len(flagset) :
                (flagset[i].Hidden \/ flagset[i].Deprecated # <<>>) =>
                    \A k \in 1..Len(synOut) :
                        /\ ~HasSub(synOut[k], LongForm(flagset[i]))
                        /\ ~HasShortForm(synOut[k], flagset[i])
    /\ "full" \in fphase =>
          /\ Len(fullOut) = Len(ShownFlags)
          /\ \A k \in 1..Len(fullOut) :
                LET f == ShownFlags[k]
                    e == fullOut[k]
                IN  IF LiveShorthand(f)
                    THEN HasShortForm(e, f) /\ HasSub(e, LongForm(f))
                    ELSE HasSub(e, LongForm(f)) /\ ~HasShortForm(e, f)
          /\ \A i \in 1..Len(flagset) :
                (flagset[i].Hidden \/ flagset[i].Deprecated # <<>>) =>
                    \A k \in 1..Len(fullOut) :
                        /\ ~HasSub(fullOut[k], LongForm(flagset[i]))
                        /\ ~HasShortForm(fullOut[k], flagset[i])

\* Both printers have run on a set with a deprecated flag that has a
\* shorthand and a shown flag whose shorthand is deprecated.
C3_Witness ==
    /\ fphase = {"syn", "full"}
    /\ Len(synOut) = 1 /\ Len(fullOut) = 1
    /\ \E i, j \in 1..Len(flagset) :
          /\ flagset[i].Deprecated # <<>> /\ ~flagset[i].Hidden
          /\ LiveShorthand(flagset[i])
          /\ ~flagset[j].Hidden /\ flagset[j].Deprecated = <<>>
          /\ flagset[j].Shorthand # <<>> /\ flagset[j].ShorthandDeprecated # <<>>

-----------------------------------------------------------------------------
(* Properties of the page model *)

\* What the claim says of one section: the annotation's sanitized text when
\* there is an annotation, else the options' sanitized text when that is
\* set, and no section when neither is.
SectionAsResolved(has, text, global, annotation) ==
    /\ annotation # <<>> => has /\ text = simpleToTroff(annotation)
    /\ (annotation = <<>> /\ global # <<>>) => has /\ text = simpleToTroff(global)
    /\ (annotation = <<>> /\ global = <<>>) => ~has

\* C4: in the page model the environment, files and bugs sections each hold
\* the sanitized annotation when the command has one, whatever the options
\* and the command's other fields are; else the sanitized text of the
\* options; and the section is absent when neither is set.
C4_AnnotationWins ==
    pphase = "built" =>
        /\ SectionAsResolved(values.HasEnvironment, values.Environment,
                             popts.Environment, cmd.Annotations.environment)
        /\ SectionAsResolved(values.HasFiles, values.Files,
                             popts.Files, cmd.Annotations.files)
        /\ SectionAsResolved(values.HasBugs, values.Bugs,
                             popts.Bugs, cmd.Annotations.bugs)

\* C5: in the page model each of HasEnvironment, HasFiles, HasBugs and
\* HasExamples is true exactly when the section's text is not empty.
C5_PresenceMatchesText ==
    pphase = "built" =>
        /\ values.HasEnvironment <=> values.Environment # <<>>
        /\ values.HasFiles <=> values.Files # <<>>
        /\ values.HasBugs <=> values.Bugs # <<>>
        /\ values.HasExamples <=> values.Examples # <<>>

\* C6: with GenSeprateInheritedFlags set the inherited block renders exactly
\* the shown inherited flags and the options block exactly the shown flags of
\* the command itself; without it the options block renders all shown flags
\* and there is no inherited block.
C6_InheritedFlagsSeparate ==
    pphase = "built" =>
        IF popts.GenSeprateInheritedFlags
        THEN /\ values.InheritedFlags = BufferString(printFlags(cmd.inheritedFlags))
             /\ values.Flags = BufferString(printFlags(cmd.localFlags))
        ELSE /\ values.Flags =
                    BufferString(printFlags(cmd.localFlags \o cmd.inheritedFlags))
             /\ ~values.HasInheritedFlags
             /\ values.InheritedFlags = <<>>

====
